---- MODULE Spec2Model ----
(***************************************************************************)
(* A model of the PFB exporter (pfb_exporter.builder.PfbFileBuilder and    *)
(* the schema / entity builders it drives).                                *)
(*                                                                         *)
(* Representation of Python values                                         *)
(*   - a JSON / row value is a record [k |-> kind, v |-> text];            *)
(*     kind is one of "null", "str", "int", "float"                        *)
(*   - a row dict is a function from the column names it holds to values   *)
(*     (a key the dict lacks is outside DOMAIN)                            *)
(*   - Python's None in a schema position is the marker "None"             *)
(*   - an Avro type expression is a record tagged by k:                    *)
(*       [k |-> "name", n |-> "string"]             a named/primitive type *)
(*       [k |-> "array", items |-> n]               {'type':'array',...}   *)
(*       [k |-> "union", branches |-> <<T1, T2>>]   a JSON list            *)
(*   - the f-string '<namespace>.<name>' is the pair <<namespace, name>>   *)
(***************************************************************************)
EXTENDS Integers, Sequences, FiniteSets, TLC

(***************************************************************************)
(* Bounds of the model                                                     *)
(***************************************************************************)
MaxRows == 2

MaxFiles == 2

\* calls of SqlaModelBuilder.to_dict on the same model classes
MaxCalls == 3

(***************************************************************************)
(* Values                                                                  *)
(***************************************************************************)
Null == [k |-> "null", v |-> ""]

Str(s) == [k |-> "str", v |-> s]

Int0 == [k |-> "int", v |-> "0"]

Int1 == [k |-> "int", v |-> "1"]

Flt1 == [k |-> "float", v |-> "1"]

Values == {Null, Str(""), Str("A"), Int0, Int1, Flt1}

\* Python truthiness of a value: None, '', 0 and 0.0 are falsy
Truthy(val) ==
    /\ val.k # "null"
    /\ ~(val.k = "str" /\ val.v = "")
    /\ ~(val.k \in {"int", "float"} /\ val.v = "0")

\* dict.get(key, default)
Get(d, key, default) == IF key \in DOMAIN d THEN d[key] ELSE default

DEFAULT_AVRO_SCHEMA_NAMESPACE == "pfb"

(***************************************************************************)
(* Avro type expressions                                                   *)
(***************************************************************************)
Name(n) == [k |-> "name", n |-> n]

Array(items) == [k |-> "array", items |-> items]

Union(branches) == [k |-> "union", branches |-> branches]

Primitives == {"null", "boolean", "int", "float", "string"}

SqlaTypes ==
    {"Text", "Boolean", "Float", "Integer", "String", "UUID", "DateTime",
     "ARRAY", "Numeric"}

\* SQLA_AVRO_TYPE_MAP['other'].get(t)
SQLA_AVRO_TYPE_MAP_other(t) ==
    CASE t = "Text" -> "string"
      [] t = "Boolean" -> "boolean"
      [] t = "Float" -> "float"
      [] t = "Integer" -> "int"
      [] t = "String" -> "string"
      [] t = "UUID" -> "string"
      [] t = "DateTime" -> "string"
      [] t = "ARRAY" -> "array"
      [] OTHER -> "None"

\* SQLA_AVRO_TYPE_MAP['logical'].get(t)
SQLA_AVRO_TYPE_MAP_logical(t) ==
    CASE t = "UUID" -> "uuid"
      [] OTHER -> "None"

sqla_to_avro_type(sqla_type, is_logical) ==
    IF is_logical
    THEN SQLA_AVRO_TYPE_MAP_logical(sqla_type)
    ELSE SQLA_AVRO_TYPE_MAP_other(sqla_type)

\* the line logger.error writes when no Avro type is found for column key
Diagnostic(key) == [level |-> "error", text |-> key, tables |-> {}]

\* the lines _create_avro_types logs for a column: one for a SQLAlchemy type
\* that is not in the map, one for such an item type of an array
TypeDiagnostics(column_obj_dict) ==
    LET avro_type == sqla_to_avro_type(column_obj_dict.sqla_type, FALSE)
    IN (IF avro_type = "None"
        THEN <<Diagnostic(column_obj_dict.name)>> ELSE << >>)
       \o (IF avro_type = "array"
              /\ sqla_to_avro_type(column_obj_dict.item_type, FALSE) = "None"
           THEN <<Diagnostic(column_obj_dict.name)>> ELSE << >>)

\* The base type before the null union: a name, or the array wrapper
AvroBaseType(column_obj_dict) ==
    LET avro_type == sqla_to_avro_type(column_obj_dict.sqla_type, FALSE)
    IN IF avro_type = "array"
       THEN Array(sqla_to_avro_type(column_obj_dict.item_type, FALSE))
       ELSE Name(avro_type)

\* Variant: the null branch is appended instead of put first
create_avro_types_NullLast(column_obj_dict) ==
    LET base == AvroBaseType(column_obj_dict)
    IN [type |-> IF column_obj_dict.nullable
                 THEN Union(<<base, Name("null")>>)
                 ELSE base,
        logicalType |-> sqla_to_avro_type(column_obj_dict.sqla_type, TRUE)]

\* Variant: the logical type, when there is one, replaces the primitive type
create_avro_types_LogicalReplaces(column_obj_dict) ==
    LET ltype == sqla_to_avro_type(column_obj_dict.sqla_type, TRUE)
        base == IF ltype # "None" THEN Name(ltype)
                ELSE AvroBaseType(column_obj_dict)
    IN [type |-> IF column_obj_dict.nullable
                 THEN Union(<<Name("null"), base>>)
                 ELSE base,
        logicalType |-> "None"]

\* PfbTableRowEntitySchema._create_avro_types; logicalType "None" stands
\* for a dict without the key
create_avro_types(column_obj_dict) ==
    LET base == AvroBaseType(column_obj_dict)
    IN [type |-> IF column_obj_dict.nullable
                 THEN Union(<<Name("null"), base>>)
                 ELSE base,
        logicalType |-> sqla_to_avro_type(column_obj_dict.sqla_type, TRUE)]

(***************************************************************************)
(* The Relational Model (SqlaModelBuilder.to_dict output): a sequence of   *)
(* table descriptors in the dict's insertion order.                        *)
(***************************************************************************)
Column(name, sqla_type, nullable, item_type) ==
    [name |-> name, sqla_type |-> sqla_type, nullable |-> nullable,
     item_type |-> item_type, default |-> Null, doc |-> ""]

ForeignKey(fkname, table, column) ==
    [fkname |-> fkname, table |-> table, column |-> column]

\* The model of the test data: biospecimen -> participant
KfModel ==
    << [class |-> "Biospecimen", table_name |-> "biospecimen",
        primary_key |-> "kf_id",
        properties |-> << Column("kf_id", "String", FALSE, "None"),
                          Column("participant_id", "String", TRUE, "None") >>,
        foreign_keys |-> << ForeignKey("participant_id", "participant",
                                       "kf_id") >>],
       [class |-> "Participant", table_name |-> "participant",
        primary_key |-> "kf_id",
        properties |-> << Column("kf_id", "String", FALSE, "None") >>,
        foreign_keys |-> << >>] >>

\* Integer foreign key and a Float column
NumModel ==
    << [class |-> "Sample", table_name |-> "sample", primary_key |-> "kf_id",
        properties |-> << Column("kf_id", "String", FALSE, "None"),
                          Column("donor_no", "Integer", TRUE, "None") >>,
        foreign_keys |-> << ForeignKey("donor_no", "donor", "donor_no") >>],
       [class |-> "Donor", table_name |-> "donor", primary_key |-> "kf_id",
        properties |-> << Column("kf_id", "String", FALSE, "None"),
                          Column("weight", "Float", TRUE, "None") >>,
        foreign_keys |-> << >>] >>

\* A column whose SQLAlchemy type is not in SQLA_AVRO_TYPE_MAP
UnmappedModel ==
    << [class |-> "Participant", table_name |-> "participant",
        primary_key |-> "kf_id",
        properties |-> << Column("kf_id", "String", FALSE, "None"),
                          Column("height", "Numeric", TRUE, "None") >>,
        foreign_keys |-> << >>] >>

\* No model class imported
EmptyModel == << >>

\* Array columns, one of them with an item type that is not in the map
ArrayModel ==
    << [class |-> "Participant", table_name |-> "participant",
        primary_key |-> "kf_id",
        properties |-> << Column("kf_id", "String", FALSE, "None"),
                          Column("scores", "ARRAY", TRUE, "Numeric"),
                          Column("tags", "ARRAY", TRUE, "String") >>,
        foreign_keys |-> << >>] >>

\* Columns with a default and a doc (Column(..., default=0, doc='Age'))
DocModel ==
    << [class |-> "Participant", table_name |-> "participant",
        primary_key |-> "kf_id",
        properties |->
           << [Column("kf_id", "String", FALSE, "None")
                  EXCEPT !.doc = "Primary key"],
              [Column("age", "Integer", FALSE, "None")
                  EXCEPT !.default = Int0, !.doc = "Age"] >>,
        foreign_keys |-> << >>] >>

\* Two foreign keys of one table to the same target table
TwoFkModel ==
    << [class |-> "Participant", table_name |-> "participant",
        primary_key |-> "kf_id",
        properties |-> << Column("kf_id", "String", FALSE, "None"),
                          Column("mother_id", "String", TRUE, "None"),
                          Column("father_id", "String", TRUE, "None") >>,
        foreign_keys |-> << ForeignKey("mother_id", "participant", "kf_id"),
                            ForeignKey("father_id", "participant",
                                       "kf_id") >>] >>

ModelSet == {KfModel, NumModel, UnmappedModel, EmptyModel}

\* orm_models_dict.keys()
Keys(models) == {models[i].table_name : i \in 1..Len(models)}

\* orm_models_dict[table_name]
Lookup(models, table_name) ==
    models[CHOOSE i \in 1..Len(models) : models[i].table_name = table_name]

(***************************************************************************)
(* Schemas                                                                 *)
(***************************************************************************)
\* Variant: a column whose type is not in the map gets no field
TableRowSchema_SkipsUnmapped(orm_model_dict) ==
    LET known == SelectSeq(orm_model_dict.properties,
                           LAMBDA p : TypeDiagnostics(p) = << >>)
    IN [type |-> "record",
        name |-> orm_model_dict.table_name,
        fields |-> [i \in 1..Len(known) |->
           LET t == create_avro_types(known[i])
           IN [type |-> t.type, logicalType |-> t.logicalType,
               default |-> known[i].default, name |-> known[i].name,
               doc |-> known[i].doc]]]

\* Variant: foreign key columns get no field
TableRowSchema_OmitsForeignKeys(orm_model_dict) ==
    LET plain == SelectSeq(orm_model_dict.properties,
                           LAMBDA p : \A i \in
                              1..Len(orm_model_dict.foreign_keys) :
                              orm_model_dict.foreign_keys[i].fkname # p.name)
    IN [type |-> "record",
        name |-> orm_model_dict.table_name,
        fields |-> [i \in 1..Len(plain) |->
           LET t == create_avro_types(plain[i])
           IN [type |-> t.type, logicalType |-> t.logicalType,
               default |-> plain[i].default, name |-> plain[i].name,
               doc |-> plain[i].doc]]]

\* PfbTableRowEntitySchema.build
TableRowSchema(orm_model_dict) ==
    [type |-> "record",
     name |-> orm_model_dict.table_name,
     fields |-> [i \in 1..Len(orm_model_dict.properties) |->
        LET p == orm_model_dict.properties[i]
            t == create_avro_types(p)
        IN [type |-> t.type, logicalType |-> t.logicalType,
            default |-> p.default, name |-> p.name, doc |-> p.doc]]]

\* the lines logged while the schemas of a sequence of columns are built
RECURSIVE ColumnDiagnostics(_)
ColumnDiagnostics(properties) ==
    IF properties = << >> THEN << >>
    ELSE TypeDiagnostics(Head(properties))
         \o ColumnDiagnostics(Tail(properties))

\* the lines logged by PfbFileSchema._build_table_row_schemas
RECURSIVE SchemaDiagnostics(_)
SchemaDiagnostics(models) ==
    IF models = << >> THEN << >>
    ELSE ColumnDiagnostics(Head(models).properties)
         \o SchemaDiagnostics(Tail(models))

\* PfbFileSchema._build_table_row_schemas
build_table_row_schemas(models) ==
    [i \in 1..Len(models) |-> TableRowSchema(models[i])]

\* PfbMetadataEntitySchema.build: the metadata_schema.json template as it is
MetadataSchema == [type |-> "record", name |-> "Metadata", fields |-> << >>]

\* template/pfb_schema.json: the Entity record; the type of `object` is the
\* placeholder that PfbFileSchema.build replaces
RelationType == [dst_id |-> Name("string"), dst_name |-> Name("string")]

PfbSchemaTemplate(id_type) ==
    [type |-> "record", name |-> "Entity", namespace |-> "",
     fields |-> << [name |-> "id", type |-> id_type],
                   [name |-> "name", type |-> Name("string")],
                   [name |-> "object", type |-> << >>],
                   [name |-> "relations", type |-> RelationType] >>]

TemplateSet ==
    {PfbSchemaTemplate(Name("string")),
     PfbSchemaTemplate(Union(<<Name("null"), Name("string")>>))}

\* a template that lost its field of the given name
WithoutField(tmpl, fname) ==
    [tmpl EXCEPT !.fields = SelectSeq(tmpl.fields,
                                      LAMBDA f : f.name # fname)]

\* Variant: the Metadata schema is the last branch of the union
FileSchema_MetadataLast(tmpl, models, ns) ==
    LET object_schemas == build_table_row_schemas(models) \o <<MetadataSchema>>
        hits == {i \in 1..Len(tmpl.fields) : tmpl.fields[i].name = "object"}
        first == IF hits = {} THEN 0
                 ELSE CHOOSE i \in hits : \A j \in hits : i <= j
    IN [tmpl EXCEPT
          !.namespace = ns,
          !.fields = [i \in 1..Len(tmpl.fields) |->
                        IF i = first
                        THEN [tmpl.fields[i] EXCEPT !.type = object_schemas]
                        ELSE tmpl.fields[i]]]

\* PfbFileSchema.build: the first field named `object` gets the union
FileSchema(tmpl, models, ns) ==
    LET object_schemas == <<MetadataSchema>> \o build_table_row_schemas(models)
        hits == {i \in 1..Len(tmpl.fields) : tmpl.fields[i].name = "object"}
        first == IF hits = {} THEN 0
                 ELSE CHOOSE i \in hits : \A j \in hits : i <= j
    IN [tmpl EXCEPT
          !.namespace = ns,
          !.fields = [i \in 1..Len(tmpl.fields) |->
                        IF i = first
                        THEN [tmpl.fields[i] EXCEPT !.type = object_schemas]
                        ELSE tmpl.fields[i]]]

\* assert object_schemas: the list build() has just made is not empty
AssertObjectSchemas(models) ==
    <<MetadataSchema>> \o build_table_row_schemas(models) # << >>

\* the value of a field of the Entity record
FieldType(schema, fname) ==
    schema.fields[CHOOSE i \in 1..Len(schema.fields) :
                     schema.fields[i].name = fname].type

ObjectSchemas(schema) == FieldType(schema, "object")

(***************************************************************************)
(* fastavro: parse_schema, validation and the write / read round trip      *)
(***************************************************************************)
\* a type expression parse_schema accepts
TypeParses(t) ==
    CASE t.k = "name" -> t.n \in Primitives
      [] t.k = "array" -> t.items \in Primitives
      [] t.k = "union" ->
            \A i \in 1..Len(t.branches) :
               LET b == t.branches[i]
               IN CASE b.k = "name" -> b.n \in Primitives
                    [] b.k = "array" -> b.items \in Primitives
                    [] OTHER -> FALSE

\* parse_schema(self.pfb_file_schema.avro_schema) does not raise
ParseSchemaOk(schema) ==
    \A i \in 1..Len(ObjectSchemas(schema)) :
       LET branch == ObjectSchemas(schema)[i]
       IN \A j \in 1..Len(branch.fields) : TypeParses(branch.fields[j].type)

\* validation of a datum against a non-union type
ValidatesPlain(val, t) ==
    CASE t.k = "array" -> FALSE
      [] t.n = "null" -> val.k = "null"
      [] t.n = "string" -> val.k = "str"
      [] t.n = "int" -> val.k = "int"
      [] t.n = "float" -> val.k \in {"int", "float"}
      [] OTHER -> FALSE

\* Variant: null is valid for every type
ValidatesValue_NullOk(val, t) ==
    \/ val.k = "null"
    \/ IF t.k = "union"
       THEN \E i \in 1..Len(t.branches) : ValidatesPlain(val, t.branches[i])
       ELSE ValidatesPlain(val, t)

ValidatesValue(val, t) ==
    IF t.k = "union"
    THEN \E i \in 1..Len(t.branches) : ValidatesPlain(val, t.branches[i])
    ELSE ValidatesPlain(val, t)

\* the value a reader gets back for a datum written under type t
Encode(val, t) ==
    LET plain == IF t.k = "union"
                 THEN t.branches[CHOOSE i \in 1..Len(t.branches) :
                        /\ ValidatesPlain(val, t.branches[i])
                        /\ \A j \in 1..(i - 1) :
                              ~ValidatesPlain(val, t.branches[j])]
                 ELSE t
    IN IF plain.k = "name" /\ plain.n = "float" /\ val.k = "int"
       THEN [k |-> "float", v |-> val.v]
       ELSE val

\* the union branch an (tag, payload) pair selects
BranchOf(schema, tag) ==
    LET os == ObjectSchemas(schema)
    IN os[CHOOSE i \in 1..Len(os) : <<schema.namespace, os[i].name>> = tag]

HasBranch(schema, tag) ==
    \E i \in 1..Len(ObjectSchemas(schema)) :
       <<schema.namespace, ObjectSchemas(schema)[i].name>> = tag

\* writer(..., validator=True): the record conforms to the parsed schema
Validates(ent, schema) ==
    /\ ValidatesValue(ent.id, FieldType(schema, "id"))
    /\ HasBranch(schema, ent.object[1])
    /\ LET branch == BranchOf(schema, ent.object[1])
       IN \A j \in 1..Len(branch.fields) :
             ValidatesValue(
                Get(ent.object[2], branch.fields[j].name,
                    branch.fields[j].default),
                branch.fields[j].type)
    /\ \A r \in 1..Len(ent.relations) :
          /\ ValidatesValue(ent.relations[r].dst_id,
                            FieldType(schema, "relations").dst_id)

\* the record avro_reader returns for a written entity
ReadBack(ent, schema) ==
    LET branch == BranchOf(schema, ent.object[1])
        names == {branch.fields[j].name : j \in 1..Len(branch.fields)}
        fld(n) == branch.fields[CHOOSE j \in 1..Len(branch.fields) :
                                   branch.fields[j].name = n]
    IN [id |-> Encode(ent.id, FieldType(schema, "id")),
        name |-> ent.name,
        object |-> [n \in names |->
                      Encode(Get(ent.object[2], n, fld(n).default),
                             fld(n).type)],
        relations |-> ent.relations]

(***************************************************************************)
(* Entities                                                                *)
(***************************************************************************)
\* PfbTableRowEntity.build: the foreign key whose fkname is col (the last
\* one, as in the dict comprehension)
FkOf(orm_model_dict, col) ==
    LET fks == orm_model_dict.foreign_keys
        hits == {i \in 1..Len(fks) : fks[i].fkname = col}
    IN fks[CHOOSE i \in hits : \A j \in hits : j <= i]

IsFkColumn(orm_model_dict, col) ==
    \E i \in 1..Len(orm_model_dict.foreign_keys) :
       orm_model_dict.foreign_keys[i].fkname = col

\* A fixed iteration order of the keys of a row dict
RECURSIVE SeqOfSet(_)
SeqOfSet(S) ==
    IF S = {} THEN << >>
    ELSE LET x == CHOOSE y \in S : TRUE
         IN <<x>> \o SeqOfSet(S \ {x})

RECURSIVE Relations(_, _, _)
Relations(cols, row_dict, orm_model_dict) ==
    IF cols = << >> THEN << >>
    ELSE LET col == Head(cols)
             rest == Relations(Tail(cols), row_dict, orm_model_dict)
         IN IF IsFkColumn(orm_model_dict, col) /\ Truthy(row_dict[col])
            THEN << [dst_id |-> row_dict[col],
                     dst_name |-> FkOf(orm_model_dict, col).table] >>
                 \o rest
            ELSE rest

\* Variant: the id is read from a column named 'id', not the primary key
RowEntity_IdFromIdColumn(idx, row_dict, orm_model_dict, ns) ==
    [id |-> Get(row_dict, "id", Null),
     name |-> orm_model_dict.table_name,
     object |-> << <<ns, orm_model_dict.table_name>>, row_dict >>,
     relations |->
        Relations(SeqOfSet(DOMAIN row_dict), row_dict, orm_model_dict)]

\* Variant: the entity is named after the model class, not the table
RowEntity_NameIsClass(idx, row_dict, orm_model_dict, ns) ==
    [id |-> Get(row_dict, orm_model_dict.primary_key, Null),
     name |-> orm_model_dict.class,
     object |-> << <<ns, orm_model_dict.table_name>>, row_dict >>,
     relations |->
        Relations(SeqOfSet(DOMAIN row_dict), row_dict, orm_model_dict)]

\* Variant: foreign key columns are left out of the payload
RowEntity_DropsFkColumns(idx, row_dict, orm_model_dict, ns) ==
    [id |-> Get(row_dict, orm_model_dict.primary_key, Null),
     name |-> orm_model_dict.table_name,
     object |-> << <<ns, orm_model_dict.table_name>>,
                   [c \in {d \in DOMAIN row_dict :
                              ~IsFkColumn(orm_model_dict, d)} |->
                       row_dict[c]] >>,
     relations |->
        Relations(SeqOfSet(DOMAIN row_dict), row_dict, orm_model_dict)]

\* PfbTableRowEntity.build
RowEntity(idx, row_dict, orm_model_dict, ns) ==
    [id |-> Get(row_dict, orm_model_dict.primary_key, Null),
     name |-> orm_model_dict.table_name,
     object |-> << <<ns, orm_model_dict.table_name>>, row_dict >>,
     relations |->
        Relations(SeqOfSet(DOMAIN row_dict), row_dict, orm_model_dict)]

\* template/metadata.json: the name of the metadata dict
MetadataTemplateName == "Metadata"

\* Variant: a link is named after the foreign key column
MetadataEntity_LinkNamedByColumn(models, ns) ==
    [id |-> Str("Metadata"),
     name |-> MetadataTemplateName,
     object |-> << <<ns, MetadataTemplateName>>,
        [nodes |-> [i \in 1..Len(models) |->
           [name |-> models[i].table_name,
            properties |-> [j \in 1..Len(models[i].properties) |->
                              [name |-> models[i].properties[j].name]],
            links |-> [j \in 1..Len(models[i].foreign_keys) |->
                         [dst |-> models[i].foreign_keys[j].table,
                          multiplicity |-> "MANY_TO_ONE",
                          name |-> models[i].foreign_keys[j].fkname]]]]] >>,
     relations |-> << >>]

\* PfbMetadataEntity.build
MetadataEntity(models, ns) ==
    [id |-> Str("Metadata"),
     name |-> MetadataTemplateName,
     object |-> << <<ns, MetadataTemplateName>>,
        [nodes |-> [i \in 1..Len(models) |->
           [name |-> models[i].table_name,
            properties |-> [j \in 1..Len(models[i].properties) |->
                              [name |-> models[i].properties[j].name]],
            links |-> [j \in 1..Len(models[i].foreign_keys) |->
                         [dst |-> models[i].foreign_keys[j].table,
                          multiplicity |-> "MANY_TO_ONE",
                          name |-> models[i].foreign_keys[j].table]]]]] >>,
     relations |-> << >>]

\* PfbFileBuilder.yield_entities over the row entities of a source
yield_entities(models, ns, row_entities) ==
    <<MetadataEntity(models, ns)>> \o row_entities

(***************************************************************************)
(* Inputs: the rows a source can hold for a table.  A row is the row that  *)
(* conforms to the table, or that row with one column dropped, one column  *)
(* set to another value, or one column added.                              *)
(***************************************************************************)
ColNames(orm_model_dict) ==
    {orm_model_dict.properties[i].name :
        i \in 1..Len(orm_model_dict.properties)}

ColumnNamed(orm_model_dict, n) ==
    orm_model_dict.properties[
        CHOOSE i \in 1..Len(orm_model_dict.properties) :
            orm_model_dict.properties[i].name = n]

CanonValue(col) ==
    CASE col.sqla_type = "Integer" -> Int1
      [] col.sqla_type = "Float" -> Flt1
      [] OTHER -> Str("A")

CanonRow(orm_model_dict) ==
    [n \in ColNames(orm_model_dict) |->
        CanonValue(ColumnNamed(orm_model_dict, n))]

RowsOf(orm_model_dict) ==
    LET canon == CanonRow(orm_model_dict)
        cols == ColNames(orm_model_dict)
    IN {canon}
       \cup {[n \in cols \ {c} |-> canon[n]] : c \in cols}
       \cup {[canon EXCEPT ![cv[1]] = cv[2]] : cv \in cols \X Values}
       \cup {[n \in cols \cup {"extra"} |->
                IF n = "extra" THEN Str("A") ELSE canon[n]]}

\* the first record of a file: a table name, another string, not a string
FirstRecords(models) ==
    {Str(t) : t \in Keys(models)} \cup {Str("unknown_tbl"), Int0}

\* the table_name argument of build(); "None" is Python's None
TableArgs == {"None", "participant", "unknown_tbl"}

\* a record left in the output container by an earlier run
OldRecord ==
    [id |-> Str("OLD"), name |-> "participant",
     object |-> [kf_id |-> Str("OLD")], relations |-> << >>]

(***************************************************************************)
(* State                                                                   *)
(***************************************************************************)
VARIABLES
    mode,             \* "build", or "create_schema" (the schema-only command)
    namespace,        \* the Avro namespace given to PfbFileBuilder
    models_in,        \* the model classes the module at models_path defines
    import_raises,    \* create_and_import_models raises
    template,         \* template/pfb_schema.json
    db_conn_url,      \* TRUE iff a database URL was given
    table_name,       \* build(table_name=...)
    sql_file,         \* TRUE iff build(sql_file=...) was given
    rm_pfb,           \* build(rm_pfb=...)
    orm_models_dict,  \* model_builder.orm_models_dict
    pfb_file_schema,  \* << >>, or <<avro_schema>> once built
    pfb_exists,       \* os.path.isfile(pfb_file)
    pfb_records,      \* the records a reader gets from pfb_file
    pc,               \* position of build()
    exit_status,      \* -1 while running, else the process status
    log,              \* the error and marker lines logged so far
    g_pc,             \* position of the row entity generator
    fi,               \* directory entries listed so far
    cur_table,        \* table_name local of the ndjson generator
    queries,          \* the table of each query of the db generator
    qi,               \* index of the current query
    nrows,            \* rows read so far
    pending,          \* << >>, or <<ent>> yielded and not yet written
    source,           \* the row entities yielded so far
    rows_in,          \* the <<table, row>> each of them was built from
    firsts,           \* the first record of each file opened so far
    written,          \* the records this run appended to pfb_file
    pfb_before,       \* <<pfb_exists, pfb_records>> as build() found them
    column,           \* a column dict handed to _create_avro_types
    avro_types,       \* << >>, or <<the dict it returned>>
    metadata,         \* << >>, or <<the dict PfbMetadataEntity.build made>>
    result_rows,      \* the rows session.execute(query) returns
    row_dicts,        \* the row dicts yield_row_dicts has yielded
    ndjson,           \* << >>, or <<the records of <table_name>.ndjson>>
    imported_model_classes,  \* the column objects of the model classes
    to_dicts          \* what each call of to_dict returned

vars ==
    <<mode, namespace, models_in, import_raises, template, db_conn_url,
      table_name, sql_file, rm_pfb, orm_models_dict, pfb_file_schema,
      pfb_exists, pfb_records, pc, exit_status, log, g_pc, fi, cur_table,
      queries, qi, nrows, pending, source, rows_in, firsts, written,
      pfb_before, column, avro_types, metadata, result_rows, row_dicts,
      ndjson, imported_model_classes, to_dicts>>

\* what DbUtils works on, and what SqlaModelBuilder works on
db == <<result_rows, row_dicts, ndjson>>

sqla == <<imported_model_classes, to_dicts>>

inputs ==
    <<mode, namespace, models_in, import_raises, template, db_conn_url,
      table_name, sql_file, rm_pfb, pfb_before, column, avro_types, metadata,
      db, sqla>>

gen ==
    <<g_pc, fi, cur_table, queries, qi, nrows, pending, source, rows_in,
      firsts>>

Init ==
    /\ mode \in {"build", "create_schema"}
    /\ namespace = DEFAULT_AVRO_SCHEMA_NAMESPACE
    /\ models_in \in ModelSet
    /\ import_raises \in BOOLEAN
    /\ template \in TemplateSet
    /\ db_conn_url \in BOOLEAN
    /\ table_name \in TableArgs
    /\ sql_file \in BOOLEAN
    /\ (~db_conn_url => table_name = "None" /\ ~sql_file)
    /\ rm_pfb \in BOOLEAN
    /\ (mode = "create_schema" => table_name = "None" /\ ~sql_file /\ rm_pfb)
    /\ orm_models_dict = << >>
    /\ pfb_file_schema = << >>
    /\ pfb_exists \in BOOLEAN
    /\ pfb_records = IF pfb_exists THEN <<OldRecord>> ELSE << >>
    /\ pc = "Init"
    /\ exit_status = -1
    /\ log = << >>
    /\ g_pc = "start"
    /\ fi = 0
    /\ cur_table = "None"
    /\ queries = << >>
    /\ qi = 0
    /\ nrows = 0
    /\ pending = << >>
    /\ source = << >>
    /\ rows_in = << >>
    /\ firsts = << >>
    /\ written = << >>
    /\ pfb_before = <<pfb_exists, pfb_records>>
    /\ column = Column("kf_id", "String", FALSE, "None")
    /\ avro_types = << >>
    /\ metadata = << >>
    /\ result_rows = << >>
    /\ row_dicts = << >>
    /\ ndjson = << >>
    /\ imported_model_classes = << >>
    /\ to_dicts = << >>

\* a line written by logger.info
Info(text) == [level |-> "info", text |-> text, tables |-> {}]

\* the line logger.exception(str(e)) writes for an exception of the given
\* type; tables are the table names its message lists
Exc(type, tables) == [level |-> "exception", text |-> type, tables |-> tables]

SchemaSucceeded == Info("Create PFB schema succeeded")

SchemaFailed == Info("Create PFB schema failed")

ExportSucceeded == Info("Export to PFB file succeeded")

ExportFailed == Info("Export to PFB file failed")

\* build(): except Exception: log it, log the failure marker, exit(1)
Fail(e) ==
    /\ pc' = "Failed"
    /\ exit_status' = 1
    /\ log' = log \o <<e, ExportFailed>>

(***************************************************************************)
(* build(), up to the first write                                          *)
(***************************************************************************)
\* the try block of create_pfb_schema(): << >>, or <<the exception raised>>
\* by the import of the models, the check that there are some, or the
\* construction of the PFB file schema
create_pfb_schema_raises ==
    IF import_raises THEN <<Exc("ImportError", {})>>
    ELSE IF models_in = << >> THEN <<Exc("RuntimeError", {})>>
    ELSE IF ~AssertObjectSchemas(models_in)
         THEN <<Exc("AssertionError", {})>>
    ELSE << >>

\* the except block of create_pfb_schema() logs the exception, then formats
\* the failure marker with self.pfb_file_schema, which the failed try block
\* never set: an AttributeError leaves the handler before the marker is
\* logged and before exit(1)
HandlerError == Exc("AttributeError", {})

\* build() calls create_pfb_schema(): import the models, check there are
\* some, build the PFB file schema; the AttributeError of a failed call is
\* caught by the except block of build()
CreatePfbSchema ==
    /\ pc = "Init"
    /\ mode = "build"
    /\ orm_models_dict' = IF import_raises THEN << >> ELSE models_in
    /\ IF create_pfb_schema_raises # << >>
       THEN /\ pc' = "Failed"
            /\ exit_status' = 1
            /\ log' = log \o <<create_pfb_schema_raises[1], HandlerError,
                                ExportFailed>>
            /\ UNCHANGED pfb_file_schema
       ELSE /\ pfb_file_schema' =
                 << FileSchema(template, models_in, namespace) >>
            /\ log' = log \o SchemaDiagnostics(models_in)
                           \o <<SchemaSucceeded>>
            /\ pc' = "SchemaReady"
            /\ UNCHANGED exit_status
    /\ UNCHANGED <<inputs, pfb_exists, pfb_records, gen, written>>

\* Variant: the schema-only command removes the previous pfb_file
CreateSchema_RemovesFile ==
    /\ pc = "Init"
    /\ mode = "create_schema"
    /\ orm_models_dict' = IF import_raises THEN << >> ELSE models_in
    /\ IF create_pfb_schema_raises # << >>
       THEN /\ pc' = "Failed"
            /\ exit_status' = 1
            /\ log' = Append(log, create_pfb_schema_raises[1])
            /\ UNCHANGED pfb_file_schema
       ELSE /\ pfb_file_schema' =
                 << FileSchema(template, models_in, namespace) >>
            /\ log' = log \o SchemaDiagnostics(models_in)
                           \o <<SchemaSucceeded>>
            /\ pc' = "SchemaDone"
            /\ exit_status' = 0
    /\ pfb_exists' = FALSE
    /\ pfb_records' = << >>
    /\ UNCHANGED <<inputs, gen, written>>

\* the create_schema command: create_pfb_schema() on its own.  When the try
\* block raises, the AttributeError of the handler is not caught by anyone:
\* the interpreter prints the traceback and ends with status 1
CreateSchema ==
    /\ pc = "Init"
    /\ mode = "create_schema"
    /\ orm_models_dict' = IF import_raises THEN << >> ELSE models_in
    /\ IF create_pfb_schema_raises # << >>
       THEN /\ pc' = "Failed"
            /\ exit_status' = 1
            /\ log' = Append(log, create_pfb_schema_raises[1])
            /\ UNCHANGED pfb_file_schema
       ELSE /\ pfb_file_schema' =
                 << FileSchema(template, models_in, namespace) >>
            /\ log' = log \o SchemaDiagnostics(models_in)
                           \o <<SchemaSucceeded>>
            /\ pc' = "SchemaDone"
            /\ exit_status' = 0
    /\ UNCHANGED <<inputs, pfb_exists, pfb_records, gen, written>>

\* Variant: the previous pfb_file is never removed
RemovePrevious_KeepsFile ==
    /\ pc = "SchemaReady"
    /\ pc' = "Removed"
    /\ UNCHANGED <<inputs, orm_models_dict, pfb_file_schema, pfb_exists,
                   pfb_records, exit_status, log, gen, written>>

\* Variant: the previous pfb_file is removed whatever rm_pfb says
RemovePrevious_Always ==
    /\ pc = "SchemaReady"
    /\ pfb_exists' = FALSE
    /\ pfb_records' = << >>
    /\ pc' = "Removed"
    /\ UNCHANGED <<inputs, orm_models_dict, pfb_file_schema, exit_status, log,
                   gen, written>>

\* pick the generator (not started yet), then remove the previous pfb_file
RemovePrevious ==
    /\ pc = "SchemaReady"
    /\ IF rm_pfb /\ pfb_exists
       THEN /\ pfb_exists' = FALSE
            /\ pfb_records' = << >>
       ELSE UNCHANGED <<pfb_exists, pfb_records>>
    /\ pc' = "Removed"
    /\ UNCHANGED <<inputs, orm_models_dict, pfb_file_schema, exit_status, log,
                   gen, written>>

\* parsed_schema = parse_schema(self.pfb_file_schema.avro_schema)
ParseSchema ==
    /\ pc = "Removed"
    /\ IF ParseSchemaOk(pfb_file_schema[1])
       THEN /\ pc' = "Parsed"
            /\ UNCHANGED <<exit_status, log>>
       ELSE Fail(Exc("UnknownType", {}))
    /\ UNCHANGED <<inputs, orm_models_dict, pfb_file_schema, pfb_exists,
                   pfb_records, gen, written>>

\* open(self.pfb_file, 'a+b'): creates the file when it is not there
OpenAvroFile ==
    /\ pc = "Parsed"
    /\ pfb_exists' = TRUE
    /\ pc' = "Writing"
    /\ UNCHANGED <<inputs, orm_models_dict, pfb_file_schema, pfb_records,
                   exit_status, log, gen, written>>

(***************************************************************************)
(* The row entity generators.  A generator runs only when build()'s for    *)
(* loop asks for the next entity: pc = "Writing" and nothing is pending.   *)
(***************************************************************************)
Pulling == pc = "Writing" /\ pending = << >>

\* the source is exhausted: the for loop ends, the with block closes the
\* file and build() logs success
Exhausted ==
    /\ g_pc' = "done"
    /\ pc' = "Closed"
    /\ exit_status' = 0
    /\ log' = Append(log, ExportSucceeded)

\* yield PfbTableRowEntity(i, obj, orm_models_dict[table], namespace).data
Yield(row, table) ==
    LET ent == RowEntity(nrows, row, Lookup(orm_models_dict, table),
                         namespace)
    IN /\ pending' = <<ent>>
       /\ source' = Append(source, ent)
       /\ rows_in' = Append(rows_in, <<table, row>>)
       /\ nrows' = nrows + 1

\* _yield_row_entities_from_ndjson: log, then start listing data_dir
GenStartNdjson ==
    /\ Pulling
    /\ ~db_conn_url
    /\ g_pc = "start"
    /\ g_pc' = "dir"
    /\ UNCHANGED <<inputs, orm_models_dict, pfb_file_schema, pfb_exists,
                   pfb_records, pc, exit_status, log, fi, cur_table, queries,
                   qi, nrows, pending, source, rows_in, firsts, written>>

\* for fi, fn in enumerate(os.listdir(data_dir)): a directory is skipped, a
\* file is opened, the end of the listing ends the generator
GenNextEntry ==
    /\ Pulling
    /\ g_pc = "dir"
    /\ \E entry \in {"dir", "file", "end"} :
          CASE entry = "end" ->
                 /\ Exhausted
                 /\ UNCHANGED <<fi, cur_table>>
            [] entry = "dir" ->
                 /\ fi < MaxFiles
                 /\ fi' = fi + 1
                 /\ UNCHANGED <<g_pc, pc, exit_status, log, cur_table>>
            [] entry = "file" ->
                 /\ fi < MaxFiles
                 /\ fi' = fi + 1
                 /\ g_pc' = "file_first"
                 /\ cur_table' = "None"
                 /\ UNCHANGED <<pc, exit_status, log>>
    /\ UNCHANGED <<inputs, orm_models_dict, pfb_file_schema, pfb_exists,
                   pfb_records, queries, qi, nrows, pending, source, rows_in,
                   firsts, written>>

\* Variant: the first record is looked up among the model class names
process_first_raises_ClassNames(obj, models) ==
    IF obj.k # "str" THEN <<Exc("TypeError", {})>>
    ELSE IF obj.v \notin {models[i].class : i \in 1..Len(models)}
         THEN <<Exc("ValueError", Keys(models))>>
    ELSE << >>

\* process_first(obj): << >>, or <<the exception raised>>.  Only the
\* ValueError message goes on with 'Table name must be one of:'
process_first_raises(obj, models) ==
    IF obj.k # "str" THEN <<Exc("TypeError", {})>>
    ELSE IF obj.v \notin Keys(models)
         THEN <<Exc("ValueError", Keys(models))>>
    ELSE << >>

\* process_first(obj) on the first record of a file
GenReadFirst ==
    /\ Pulling
    /\ g_pc = "file_first"
    /\ \E obj \in FirstRecords(orm_models_dict) :
          /\ firsts' = Append(firsts, obj)
          /\ IF process_first_raises(obj, orm_models_dict) = << >>
             THEN /\ cur_table' = obj.v
                  /\ g_pc' = "file_rows"
                  /\ UNCHANGED <<pc, exit_status, log>>
             ELSE /\ Fail(process_first_raises(obj, orm_models_dict)[1])
                  /\ UNCHANGED <<cur_table, g_pc>>
    /\ UNCHANGED <<inputs, orm_models_dict, pfb_file_schema, pfb_exists,
                   pfb_records, fi, queries, qi, nrows, pending, source,
                   rows_in, written>>

\* Variant: the generator reads the next row before the entity of the
\* previous one is written
GenReadRow_ReadsAhead ==
    /\ pc = "Writing"
    /\ g_pc = "file_rows"
    /\ nrows < MaxRows
    /\ \E row \in RowsOf(Lookup(orm_models_dict, cur_table)) :
          Yield(row, cur_table)
    /\ UNCHANGED <<inputs, orm_models_dict, pfb_file_schema, pfb_exists,
                   pfb_records, pc, exit_status, log, g_pc, fi, cur_table,
                   queries, qi, firsts, written>>

\* a record after the first one becomes a Table Row PFB Entity
GenReadRow ==
    /\ Pulling
    /\ g_pc = "file_rows"
    /\ nrows < MaxRows
    /\ \E row \in RowsOf(Lookup(orm_models_dict, cur_table)) :
          Yield(row, cur_table)
    /\ UNCHANGED <<inputs, orm_models_dict, pfb_file_schema, pfb_exists,
                   pfb_records, pc, exit_status, log, g_pc, fi, cur_table,
                   queries, qi, firsts, written>>

\* the reader of the current file has no more records
GenEndOfFile ==
    /\ Pulling
    /\ g_pc \in {"file_first", "file_rows"}
    /\ g_pc' = "dir"
    /\ UNCHANGED <<inputs, orm_models_dict, pfb_file_schema, pfb_exists,
                   pfb_records, pc, exit_status, log, fi, cur_table, queries,
                   qi, nrows, pending, source, rows_in, firsts, written>>

\* DbUtils.load_query(table_name, sql_file_path) raises: no query is loaded
\* when the SQL file is empty, or when neither argument is given
load_query_raises(table, sql_file_path, file_empty) ==
    IF sql_file_path THEN file_empty ELSE table = "None"

\* Variant: the queries of the tables are built in reverse order
Queries_Reversed(table, sql_file_path, models) ==
    IF table # "None" \/ sql_file_path
    THEN <<table>>
    ELSE [i \in 1..Len(models) |-> models[Len(models) + 1 - i].table_name]

\* the table of each query _yield_row_entities_from_db builds
Queries(table, sql_file_path, models) ==
    IF table # "None" \/ sql_file_path
    THEN <<table>>
    ELSE [i \in 1..Len(models) |-> models[i].table_name]

\* _yield_row_entities_from_db up to its first loop: connect, then load the
\* query or queries.  It runs when build() asks for the first entity
GenStartDb ==
    /\ Pulling
    /\ db_conn_url
    /\ g_pc = "start"
    /\ \E connected \in BOOLEAN, file_empty \in BOOLEAN :
          IF ~connected
          THEN /\ Fail(Exc("OperationalError", {}))
               /\ UNCHANGED <<g_pc, queries, qi>>
          ELSE IF (table_name # "None" \/ sql_file)
                  /\ load_query_raises(table_name, sql_file, file_empty)
          THEN /\ Fail(Exc("RuntimeError", {}))
               /\ UNCHANGED <<g_pc, queries, qi>>
          ELSE /\ queries' = Queries(table_name, sql_file, orm_models_dict)
               /\ IF queries' = << >>
                  THEN /\ Fail(Exc("RuntimeError", {}))
                       /\ UNCHANGED <<g_pc, qi>>
                  ELSE /\ g_pc' = "db"
                       /\ qi' = 1
                       /\ UNCHANGED <<pc, exit_status, log>>
    /\ UNCHANGED <<inputs, orm_models_dict, pfb_file_schema, pfb_exists,
                   pfb_records, fi, cur_table, nrows, pending, source,
                   rows_in, firsts, written>>

\* the next row of the current query; orm_models_dict[table_name] raises a
\* KeyError when the table is not in the model
GenDbRow ==
    /\ Pulling
    /\ g_pc = "db"
    /\ qi <= Len(queries)
    /\ nrows < MaxRows
    /\ IF queries[qi] \in Keys(orm_models_dict)
       THEN /\ \E row \in RowsOf(Lookup(orm_models_dict, queries[qi])) :
                  Yield(row, queries[qi])
            /\ UNCHANGED <<pc, exit_status, log>>
       ELSE /\ Fail(Exc("KeyError", {}))
            /\ UNCHANGED <<nrows, pending, source, rows_in>>
    /\ UNCHANGED <<inputs, orm_models_dict, pfb_file_schema, pfb_exists,
                   pfb_records, g_pc, fi, cur_table, queries, qi, firsts,
                   written>>

\* the current query has no more rows: next query, or the generator ends
GenDbQueryDone ==
    /\ Pulling
    /\ g_pc = "db"
    /\ qi <= Len(queries)
    /\ IF qi = Len(queries)
       THEN /\ Exhausted
            /\ UNCHANGED qi
       ELSE /\ qi' = qi + 1
            /\ UNCHANGED <<g_pc, pc, exit_status, log>>
    /\ UNCHANGED <<inputs, orm_models_dict, pfb_file_schema, pfb_exists,
                   pfb_records, fi, cur_table, queries, nrows, pending,
                   source, rows_in, firsts, written>>

(***************************************************************************)
(* build(): the body of the for loop                                       *)
(***************************************************************************)
\* Variant: a record that fails validation is skipped and the loop goes on
WriteEntity_SkipAndContinue ==
    /\ pc = "Writing"
    /\ pending # << >>
    /\ LET ent == pending[1]
           schema == pfb_file_schema[1]
       IN IF Validates(ent, schema)
          THEN /\ pfb_records' = Append(pfb_records, ReadBack(ent, schema))
               /\ written' = Append(written, ReadBack(ent, schema))
          ELSE UNCHANGED <<pfb_records, written>>
    /\ pending' = << >>
    /\ UNCHANGED <<inputs, orm_models_dict, pfb_file_schema, pfb_exists, pc,
                   exit_status, log, g_pc, fi, cur_table, queries, qi, nrows,
                   source, rows_in, firsts>>

\* Variant: the file is reopened in 'w+b' mode for every entity
WriteEntity_Truncates ==
    /\ pc = "Writing"
    /\ pending # << >>
    /\ LET ent == pending[1]
           schema == pfb_file_schema[1]
       IN IF Validates(ent, schema)
          THEN /\ pfb_records' = <<ReadBack(ent, schema)>>
               /\ written' = Append(written, ReadBack(ent, schema))
               /\ pending' = << >>
               /\ UNCHANGED <<pc, exit_status, log>>
          ELSE /\ Fail(Exc("ValidationError", {}))
               /\ UNCHANGED <<pfb_records, written, pending>>
    /\ UNCHANGED <<inputs, orm_models_dict, pfb_file_schema, pfb_exists, g_pc,
                   fi, cur_table, queries, qi, nrows, source, rows_in,
                   firsts>>

\* writer(Avro_file, parsed_schema, [ent], validator=True)
WriteEntity ==
    /\ pc = "Writing"
    /\ pending # << >>
    /\ LET ent == pending[1]
           schema == pfb_file_schema[1]
       IN IF Validates(ent, schema)
          THEN /\ pfb_records' = Append(pfb_records, ReadBack(ent, schema))
               /\ written' = Append(written, ReadBack(ent, schema))
               /\ pending' = << >>
               /\ UNCHANGED <<pc, exit_status, log>>
          ELSE /\ Fail(Exc("ValidationError", {}))
               /\ UNCHANGED <<pfb_records, written, pending>>
    /\ UNCHANGED <<inputs, orm_models_dict, pfb_file_schema, pfb_exists, g_pc,
                   fi, cur_table, queries, qi, nrows, source, rows_in,
                   firsts>>

Next ==
    \/ CreatePfbSchema
    \/ CreateSchema
    \/ RemovePrevious
    \/ ParseSchema
    \/ OpenAvroFile
    \/ GenStartNdjson
    \/ GenNextEntry
    \/ GenReadFirst
    \/ GenReadRow
    \/ GenEndOfFile
    \/ GenStartDb
    \/ GenDbRow
    \/ GenDbQueryDone
    \/ WriteEntity

Spec == Init /\ [][Next]_vars

(***************************************************************************)
(* Type mapping on its own: any column dict, one call                      *)
(***************************************************************************)
ColumnSet ==
    {[name |-> n, sqla_type |-> t, nullable |-> nl, item_type |-> it,
      default |-> d, doc |-> ""] :
        n \in {"kf_id", "tags"}, t \in SqlaTypes, nl \in BOOLEAN,
        it \in SqlaTypes \cup {"None"}, d \in {Null, Str("A")}}

\* _column_obj_to_dict sets item_type for ARRAY columns only
ColumnDicts == {c \in ColumnSet : (c.item_type # "None") = (c.sqla_type = "ARRAY")}

InitTypes ==
    /\ column \in ColumnDicts
    /\ avro_types = << >>
    /\ metadata = << >>
    /\ mode = "build"
    /\ namespace = DEFAULT_AVRO_SCHEMA_NAMESPACE
    /\ log = << >>
    /\ firsts = << >>
    /\ models_in = EmptyModel
    /\ import_raises = FALSE
    /\ template = PfbSchemaTemplate(Name("string"))
    /\ db_conn_url = FALSE
    /\ table_name = "None"
    /\ sql_file = FALSE
    /\ rm_pfb = TRUE
    /\ orm_models_dict = << >>
    /\ pfb_file_schema = << >>
    /\ pfb_exists = FALSE
    /\ pfb_records = << >>
    /\ pfb_before = <<FALSE, << >> >>
    /\ pc = "Types"
    /\ exit_status = -1
    /\ g_pc = "start"
    /\ fi = 0
    /\ cur_table = "None"
    /\ queries = << >>
    /\ qi = 0
    /\ nrows = 0
    /\ pending = << >>
    /\ source = << >>
    /\ rows_in = << >>
    /\ written = << >>
    /\ result_rows = << >>
    /\ row_dicts = << >>
    /\ ndjson = << >>
    /\ imported_model_classes = << >>
    /\ to_dicts = << >>

\* output = self._create_avro_types(column_obj_dict)
CreateAvroTypes ==
    /\ pc = "Types"
    /\ avro_types = << >>
    /\ avro_types' = <<create_avro_types(column)>>
    /\ log' = log \o TypeDiagnostics(column)
    /\ UNCHANGED <<mode, namespace, models_in, import_raises, template,
                   db_conn_url, table_name, sql_file, rm_pfb, orm_models_dict,
                   pfb_file_schema, pfb_exists, pfb_records, pc, exit_status,
                   gen, written, pfb_before, column, metadata, db, sqla>>

NextTypes == CreateAvroTypes

SpecTypes == InitTypes /\ [][NextTypes]_vars

(***************************************************************************)
(* Schema and metadata construction on their own: any model, any template, *)
(* any namespace, one call of each                                         *)
(***************************************************************************)
SchemaModelSet == ModelSet \cup {TwoFkModel, ArrayModel, DocModel}

TemplateInputs ==
    TemplateSet \cup {WithoutField(t, "object") : t \in TemplateSet}

NamespaceSet == {DEFAULT_AVRO_SCHEMA_NAMESPACE, "kf"}

InitSchema ==
    /\ models_in \in SchemaModelSet
    /\ template \in TemplateInputs
    /\ namespace \in NamespaceSet
    /\ pfb_file_schema = << >>
    /\ metadata = << >>
    /\ log = << >>
    /\ pc = "Schema"
    /\ column = Column("kf_id", "String", FALSE, "None")
    /\ avro_types = << >>
    /\ mode = "create_schema"
    /\ import_raises = FALSE
    /\ db_conn_url = FALSE
    /\ table_name = "None"
    /\ sql_file = FALSE
    /\ rm_pfb = TRUE
    /\ orm_models_dict = models_in
    /\ pfb_exists = FALSE
    /\ pfb_records = << >>
    /\ pfb_before = <<FALSE, << >> >>
    /\ exit_status = -1
    /\ g_pc = "start"
    /\ fi = 0
    /\ cur_table = "None"
    /\ queries = << >>
    /\ qi = 0
    /\ nrows = 0
    /\ pending = << >>
    /\ source = << >>
    /\ rows_in = << >>
    /\ firsts = << >>
    /\ written = << >>
    /\ result_rows = << >>
    /\ row_dicts = << >>
    /\ ndjson = << >>
    /\ imported_model_classes = << >>
    /\ to_dicts = << >>

\* PfbFileSchema(orm_models_dict, output_dir, namespace): the table row
\* schemas are built, then build() either raises at its assert or returns
\* the schema
BuildFileSchema ==
    /\ pc = "Schema"
    /\ pfb_file_schema = << >>
    /\ log = << >>
    /\ IF AssertObjectSchemas(orm_models_dict)
       THEN /\ pfb_file_schema' =
                 << FileSchema(template, orm_models_dict, namespace) >>
            /\ log' = log \o SchemaDiagnostics(orm_models_dict)
       ELSE /\ log' = log \o SchemaDiagnostics(orm_models_dict)
                           \o <<Exc("AssertionError", {})>>
            /\ UNCHANGED pfb_file_schema
    /\ UNCHANGED <<inputs, orm_models_dict, pfb_exists, pfb_records, pc,
                   exit_status, gen, written>>

\* Variant: building the metadata takes the foreign keys out of the model
BuildMetadataEntity_ConsumesLinks ==
    /\ pc = "Schema"
    /\ metadata = << >>
    /\ metadata' = << MetadataEntity(orm_models_dict, namespace) >>
    /\ orm_models_dict' =
          [i \in 1..Len(orm_models_dict) |->
              [orm_models_dict[i] EXCEPT !.foreign_keys = << >>]]
    /\ UNCHANGED <<mode, namespace, models_in, import_raises, template,
                   db_conn_url, table_name, sql_file, rm_pfb,
                   pfb_file_schema, pfb_exists, pfb_records, pc, exit_status,
                   log, gen, written, pfb_before, column, avro_types, db,
                   sqla>>

\* self.data = self.build() of PfbMetadataEntity
BuildMetadataEntity ==
    /\ pc = "Schema"
    /\ metadata = << >>
    /\ metadata' = << MetadataEntity(orm_models_dict, namespace) >>
    /\ UNCHANGED <<mode, namespace, models_in, import_raises, template,
                   db_conn_url, table_name, sql_file, rm_pfb, orm_models_dict,
                   pfb_file_schema, pfb_exists, pfb_records, pc, exit_status,
                   log, gen, written, pfb_before, column, avro_types, db,
                   sqla>>

\* PfbTableRowEntity(idx, row_dict, orm_model_dict, namespace) for a row of
\* one of the tables
BuildRowEntity ==
    /\ pc = "Schema"
    /\ nrows < MaxRows
    /\ \E i \in 1..Len(orm_models_dict) :
          LET row == CanonRow(orm_models_dict[i])
          IN /\ source' = Append(source,
                                 RowEntity(nrows, row, orm_models_dict[i],
                                           namespace))
             /\ rows_in' =
                   Append(rows_in, <<orm_models_dict[i].table_name, row>>)
             /\ nrows' = nrows + 1
    /\ UNCHANGED <<inputs, orm_models_dict, pfb_file_schema, pfb_exists,
                   pfb_records, pc, exit_status, log, g_pc, fi, cur_table,
                   queries, qi, pending, firsts, written>>

NextSchema ==
    \/ BuildFileSchema
    \/ BuildMetadataEntity
    \/ BuildRowEntity

SpecSchema == InitSchema /\ [][NextSchema]_vars

(***************************************************************************)
(* DbUtils: the rows of a query are normalised, written to a JSON lines     *)
(* file, and that file is read back by _yield_row_entities_from_ndjson      *)
(***************************************************************************)
\* values of Python types a result row may hold besides those of Values;
\* v is what str(val) returns
Bool1 == [k |-> "bool", v |-> "True"]

Bytes1 == [k |-> "bytes", v |-> "A"]

DateTime1 == [k |-> "datetime", v |-> "2020-01-02 03:04:05"]

Decimal1 == [k |-> "Decimal", v |-> "1.5"]

NativeValues ==
    {Null, Str("A"), Int1, Flt1, Bool1, Bytes1, DateTime1, Decimal1}

basic_types == {"int", "float", "bool", "str", "bytes"}

\* utils.iso_8601_datetime_str(val): the date and the time joined by 'T'
iso_8601_datetime_str(val) ==
    Str(CASE val.v = "2020-01-02 03:04:05" -> "2020-01-02T03:04:05"
          [] OTHER -> val.v)

\* Variant: a datetime is left as it is
normal_val_KeepsDatetime(val) ==
    IF ~(val.k = "null" \/ val.k \in basic_types)
    THEN IF val.k = "datetime" THEN val ELSE Str(val.v)
    ELSE val

\* the value yield_row_dicts stores for val
normal_val(val) ==
    IF ~(val.k = "null" \/ val.k \in basic_types)
    THEN IF val.k = "datetime"
         THEN iso_8601_datetime_str(val)
         ELSE Str(val.v)
    ELSE val

\* the row_dict yield_row_dicts yields for one result row
yield_row_dict(result_proxy) ==
    [col \in DOMAIN result_proxy |-> normal_val(result_proxy[col])]

\* json.dumps of a value: bytes are not JSON serializable
dumps_raises(val) == val.k = "bytes"

\* the JSON token json.dumps writes for a value
dumps(val) ==
    CASE val.k = "null" -> [j |-> "null", text |-> "null", frac |-> FALSE]
      [] val.k = "bool" ->
           [j |-> "bool",
            text |-> IF val.v = "True" THEN "true" ELSE "false",
            frac |-> FALSE]
      [] val.k = "int" -> [j |-> "number", text |-> val.v, frac |-> FALSE]
      [] val.k = "float" -> [j |-> "number", text |-> val.v, frac |-> TRUE]
      [] OTHER -> [j |-> "string", text |-> val.v, frac |-> FALSE]

\* Variant: every JSON number is read as an int
loads_IntOnly(token) ==
    CASE token.j = "null" -> Null
      [] token.j = "bool" ->
           [k |-> "bool", v |-> IF token.text = "true" THEN "True" ELSE "False"]
      [] token.j = "number" -> [k |-> "int", v |-> token.text]
      [] OTHER -> Str(token.text)

\* the value json.loads reads from a token
loads(token) ==
    CASE token.j = "null" -> Null
      [] token.j = "bool" ->
           [k |-> "bool", v |-> IF token.text = "true" THEN "True" ELSE "False"]
      [] token.j = "number" ->
           [k |-> IF token.frac THEN "float" ELSE "int", v |-> token.text]
      [] OTHER -> Str(token.text)

\* a row_dict as a reader of the JSON lines file gets it back
ReadLine(row_dict) == [col \in DOMAIN row_dict |-> loads(dumps(row_dict[col]))]

LineRaises(row_dict) == \E col \in DOMAIN row_dict : dumps_raises(row_dict[col])

\* the number of rows written before writer.write raises
RECURSIVE RowsWritten(_)
RowsWritten(dicts) ==
    IF dicts = << >> \/ LineRaises(Head(dicts))
    THEN 0
    ELSE 1 + RowsWritten(Tail(dicts))

DbRowSet ==
    {[kf_id |-> a, participant_id |-> b] :
        a \in {Str("A"), Null}, b \in NativeValues}

\* the table_name argument of table_rows_to_ndjson
DbTables == (TableArgs \cup {"biospecimen"}) \ {"None"}

RECURSIVE SeqsUpTo(_, _)
SeqsUpTo(S, n) ==
    IF n = 0
    THEN {<< >>}
    ELSE LET shorter == SeqsUpTo(S, n - 1)
         IN shorter \cup {Append(q, x) : q \in shorter, x \in S}

InitDb ==
    /\ result_rows \in SeqsUpTo(DbRowSet, MaxRows)
    /\ table_name \in DbTables
    /\ models_in = KfModel
    /\ orm_models_dict = models_in
    /\ row_dicts = << >>
    /\ ndjson = << >>
    /\ pc = "Db"
    /\ g_pc = "file_first"
    /\ log = << >>
    /\ namespace = DEFAULT_AVRO_SCHEMA_NAMESPACE
    /\ mode = "build"
    /\ import_raises = FALSE
    /\ template = PfbSchemaTemplate(Name("string"))
    /\ db_conn_url = TRUE
    /\ sql_file = FALSE
    /\ rm_pfb = TRUE
    /\ pfb_file_schema = << >>
    /\ pfb_exists = FALSE
    /\ pfb_records = << >>
    /\ pfb_before = <<FALSE, << >> >>
    /\ exit_status = -1
    /\ fi = 0
    /\ cur_table = "None"
    /\ queries = << >>
    /\ qi = 0
    /\ nrows = 0
    /\ pending = << >>
    /\ source = << >>
    /\ rows_in = << >>
    /\ firsts = << >>
    /\ written = << >>
    /\ column = Column("kf_id", "String", FALSE, "None")
    /\ avro_types = << >>
    /\ metadata = << >>
    /\ imported_model_classes = << >>
    /\ to_dicts = << >>

\* one turn of the loop of yield_row_dicts: the next result row is yielded
YieldRowDict ==
    /\ pc = "Db"
    /\ Len(row_dicts) < Len(result_rows)
    /\ row_dicts' =
          Append(row_dicts, yield_row_dict(result_rows[Len(row_dicts) + 1]))
    /\ UNCHANGED <<mode, namespace, models_in, import_raises, template,
                   db_conn_url, table_name, sql_file, rm_pfb, orm_models_dict,
                   pfb_file_schema, pfb_exists, pfb_records, pc, exit_status,
                   log, gen, written, pfb_before, column, avro_types,
                   metadata, result_rows, ndjson, sqla>>

\* table_rows_to_ndjson(table_name): the table name is written, then each
\* row dict; a row dict json.dumps cannot serialize ends the call with a
\* TypeError and leaves the lines written before it
TableRowsToNdjson ==
    /\ pc = "Db"
    /\ ndjson = << >>
    /\ LET dicts == [i \in 1..Len(result_rows) |->
                        yield_row_dict(result_rows[i])]
           n == RowsWritten(dicts)
       IN /\ ndjson' = << <<Str(table_name)>>
                            \o [i \in 1..n |-> ReadLine(dicts[i])] >>
          /\ log' = Append(log, IF n = Len(dicts)
                                THEN Info("Wrote file")
                                ELSE Exc("TypeError", {}))
    /\ UNCHANGED <<mode, namespace, models_in, import_raises, template,
                   db_conn_url, table_name, sql_file, rm_pfb, orm_models_dict,
                   pfb_file_schema, pfb_exists, pfb_records, pc, exit_status,
                   gen, written, pfb_before, column, avro_types, metadata,
                   result_rows, row_dicts, sqla>>

\* _yield_row_entities_from_ndjson on that file: process_first(obj)
ReadNdjsonFirst ==
    /\ pc = "Db"
    /\ ndjson # << >>
    /\ g_pc = "file_first"
    /\ LET obj == ndjson[1][1]
       IN /\ firsts' = Append(firsts, obj)
          /\ IF process_first_raises(obj, orm_models_dict) = << >>
             THEN /\ cur_table' = obj.v
                  /\ g_pc' = "file_rows"
                  /\ UNCHANGED log
             ELSE /\ log' = Append(log,
                               process_first_raises(obj, orm_models_dict)[1])
                  /\ g_pc' = "done"
                  /\ UNCHANGED cur_table
    /\ UNCHANGED <<inputs, orm_models_dict, pfb_file_schema, pfb_exists,
                   pfb_records, pc, exit_status, fi, queries, qi, nrows,
                   pending, source, rows_in, written>>

\* _yield_row_entities_from_ndjson on that file: a record after the first
\* one becomes a Table Row PFB Entity
ReadNdjsonRow ==
    /\ pc = "Db"
    /\ ndjson # << >>
    /\ g_pc = "file_rows"
    /\ nrows + 1 < Len(ndjson[1])
    /\ LET row == ndjson[1][nrows + 2]
       IN /\ source' = Append(source,
                              RowEntity(nrows, row,
                                        Lookup(orm_models_dict, cur_table),
                                        namespace))
          /\ rows_in' = Append(rows_in, <<cur_table, row>>)
          /\ nrows' = nrows + 1
    /\ UNCHANGED <<inputs, orm_models_dict, pfb_file_schema, pfb_exists,
                   pfb_records, pc, exit_status, log, g_pc, fi, cur_table,
                   queries, qi, pending, firsts, written>>

NextDb ==
    \/ YieldRowDict
    \/ TableRowsToNdjson
    \/ ReadNdjsonFirst
    \/ ReadNdjsonRow

SpecDb == InitDb /\ [][NextDb]_vars

(***************************************************************************)
(* SqlaModelBuilder.to_dict on the imported model classes.  A model class   *)
(* holds its column objects; the foreign_keys of a column object is a set   *)
(* of <<table, column>> targets, and set.pop() takes any one of them out.   *)
(***************************************************************************)
ColumnObj(key, type, nullable, primary_key, foreign_keys) ==
    [key |-> key, type |-> type, item_type |-> "None", nullable |-> nullable,
     default |-> Null, doc |-> "", primary_key |-> primary_key,
     foreign_keys |-> foreign_keys]

ModelClass(name, tablename, columns) ==
    [name |-> name, tablename |-> tablename, columns |-> columns]

\* ForeignKey('participant.kf_id'), ForeignKey('family.kf_id')
Targets == {<<"participant", "kf_id">>, <<"family", "kf_id">>}

\* the classes of a models module: Biospecimen, whose participant_id has
\* none, one or two foreign keys, and Participant, with or without a
\* primary key and a foreign key to family
ModelClassSet ==
    {<< ModelClass("Biospecimen", "biospecimen",
           << ColumnObj("kf_id", "String", FALSE, TRUE, {}),
              ColumnObj("participant_id", t, nl, FALSE, fks) >>),
        ModelClass("Participant", "participant",
           << ColumnObj("kf_id", "String", FALSE, pk, {}),
              ColumnObj("family_id", "String", TRUE, FALSE, fks2) >>) >> :
        t \in {"String", "Integer"}, nl \in BOOLEAN, fks \in SUBSET Targets,
        pk \in BOOLEAN, fks2 \in SUBSET {<<"family", "kf_id">>}}

\* the <<class, column>> positions whose foreign_keys set is not empty
WithForeignKeys(classes) ==
    {ij \in (1..Len(classes)) \X (1..2) :
        /\ ij[2] <= Len(classes[ij[1]].columns)
        /\ classes[ij[1]].columns[ij[2]].foreign_keys # {}}

\* what column_obj.foreign_keys.pop() may return at each of them
Pops(classes) ==
    {p \in [WithForeignKeys(classes) -> Targets] :
        \A ij \in DOMAIN p :
           p[ij] \in classes[ij[1]].columns[ij[2]].foreign_keys}

\* _column_obj_to_dict, as left in 'properties' once to_dict has popped
\* primary_key and foreign_key from it
column_obj_to_dict(column_name, column_obj) ==
    [name |-> column_name, sqla_type |-> column_obj.type,
     nullable |-> column_obj.nullable, item_type |-> column_obj.item_type,
     default |-> column_obj.default, doc |-> column_obj.doc]

\* model_dict['foreign_keys'] of class i, from column j on
RECURSIVE foreign_keys_from(_, _, _, _)
foreign_keys_from(classes, i, j, p) ==
    IF j > Len(classes[i].columns)
    THEN << >>
    ELSE (IF <<i, j>> \in DOMAIN p
          THEN << ForeignKey(classes[i].columns[j].key, p[<<i, j>>][1],
                             p[<<i, j>>][2]) >>
          ELSE << >>)
         \o foreign_keys_from(classes, i, j + 1, p)

\* model_dict['primary_key'] = p.key for each primary key column: the last
\* one stays; no column, no key in the dict
primary_key_of(model_cls) ==
    LET pks == {j \in 1..Len(model_cls.columns) :
                   model_cls.columns[j].primary_key}
    IN IF pks = {}
       THEN << >>
       ELSE [primary_key |->
               model_cls.columns[CHOOSE j \in pks :
                                    \A m \in pks : m <= j].key]

\* what to_dict returns when the pops give p
to_dict(classes, p) ==
    [i \in 1..Len(classes) |->
        [class |-> classes[i].name,
         table_name |-> classes[i].tablename,
         properties |->
            [j \in 1..Len(classes[i].columns) |->
                column_obj_to_dict(classes[i].columns[j].key,
                                   classes[i].columns[j])],
         foreign_keys |-> foreign_keys_from(classes, i, 1, p)]
        @@ primary_key_of(classes[i])]

\* the model classes once to_dict has popped p from their column objects
AfterPops(classes, p) ==
    [i \in 1..Len(classes) |->
        [classes[i] EXCEPT !.columns =
            [j \in 1..Len(classes[i].columns) |->
                IF <<i, j>> \in DOMAIN p
                THEN [classes[i].columns[j] EXCEPT
                         !.foreign_keys = @ \ {p[<<i, j>>]}]
                ELSE classes[i].columns[j]]]]

InitSqla ==
    /\ imported_model_classes \in ModelClassSet
    /\ to_dicts = << >>
    /\ pc = "Sqla"
    /\ models_in = EmptyModel
    /\ orm_models_dict = << >>
    /\ result_rows = << >>
    /\ row_dicts = << >>
    /\ ndjson = << >>
    /\ table_name = "None"
    /\ g_pc = "start"
    /\ log = << >>
    /\ namespace = DEFAULT_AVRO_SCHEMA_NAMESPACE
    /\ mode = "build"
    /\ import_raises = FALSE
    /\ template = PfbSchemaTemplate(Name("string"))
    /\ db_conn_url = FALSE
    /\ sql_file = FALSE
    /\ rm_pfb = TRUE
    /\ pfb_file_schema = << >>
    /\ pfb_exists = FALSE
    /\ pfb_records = << >>
    /\ pfb_before = <<FALSE, << >> >>
    /\ exit_status = -1
    /\ fi = 0
    /\ cur_table = "None"
    /\ queries = << >>
    /\ qi = 0
    /\ nrows = 0
    /\ pending = << >>
    /\ source = << >>
    /\ rows_in = << >>
    /\ firsts = << >>
    /\ written = << >>
    /\ column = Column("kf_id", "String", FALSE, "None")
    /\ avro_types = << >>
    /\ metadata = << >>

\* self.orm_models_dict = self.to_dict()
ToDict ==
    /\ pc = "Sqla"
    /\ Len(to_dicts) < MaxCalls
    /\ \E p \in Pops(imported_model_classes) :
          /\ to_dicts' = Append(to_dicts, to_dict(imported_model_classes, p))
          /\ orm_models_dict' = to_dict(imported_model_classes, p)
          /\ imported_model_classes' = AfterPops(imported_model_classes, p)
    /\ UNCHANGED <<mode, namespace, models_in, import_raises, template,
                   db_conn_url, table_name, sql_file, rm_pfb,
                   pfb_file_schema, pfb_exists, pfb_records, pc, exit_status,
                   log, gen, written, pfb_before, column, avro_types,
                   metadata, db>>

NextSqla == ToDict

SpecSqla == InitSqla /\ [][NextSqla]_vars

(***************************************************************************)
(* Properties                                                              *)
(***************************************************************************)
\* the table descriptor and the row the i-th yielded entity was built from
DescOf(i) == Lookup(orm_models_dict, rows_in[i][1])

RowOf(i) == rows_in[i][2]

\* the kind of value a column of a SQLAlchemy type holds
KindOfSqlaType(t) ==
    CASE t = "Integer" -> "int"
      [] t = "Float" -> "float"
      [] t = "Boolean" -> "bool"
      [] OTHER -> "str"

\* the row has exactly the columns of its table, each with a value of the
\* column's type, or null where the column is nullable
ExactRow(row, desc) ==
    /\ DOMAIN row = ColNames(desc)
    /\ \A n \in DOMAIN row :
          LET col == ColumnNamed(desc, n)
          IN \/ row[n].k = KindOfSqlaType(col.sqla_type)
             \/ (row[n].k = "null" /\ col.nullable)

\* C1: in every successful run of build() the first record written to the
\* output container is the Metadata Entity, and no Row Entity is written
\* before it.
C1_MetadataFirst ==
    /\ (written # << >> => written[1].name = "Metadata")
    /\ (pc = "Closed" => written # << >>)

\* C2: a record reaches the container only after it validated against the
\* PFB file schema; when the record at hand fails validation the next step
\* is the failure exit with status 1, the container is left as it was, and
\* nothing happens after a failure.
C2_ValidatedOrFailed ==
    [][ /\ pc # "Failed"
        /\ (pfb_records' # pfb_records /\ pc = "Writing" =>
              /\ pending # << >>
              /\ Validates(pending[1], pfb_file_schema[1])
              /\ pfb_records' =
                   Append(pfb_records,
                          ReadBack(pending[1], pfb_file_schema[1])))
        /\ (pending # << >> /\ ~Validates(pending[1], pfb_file_schema[1]) =>
              /\ pc' = "Failed"
              /\ exit_status' = 1
              /\ pfb_records' = pfb_records) ]_vars

\* C2 witness: the second record failed validation after the first one was
\* written, and the run has failed
C2_Witness ==
    /\ pc = "Failed"
    /\ exit_status = 1
    /\ pending # << >>
    /\ ~Validates(pending[1], pfb_file_schema[1])
    /\ Len(written) >= 1

\* C3: when the run fails while obtaining the model, assembling the schema
\* or parsing the assembled schema, the output container is as build()
\* found it: not created, not removed, not changed.
C3_SchemaFailureLeavesContainer ==
    (/\ pc = "Failed"
     /\ (pfb_file_schema = << >> \/ ~ParseSchemaOk(pfb_file_schema[1])))
    => <<pfb_exists, pfb_records>> = pfb_before

KeptRecords == IF rm_pfb THEN 0 ELSE Len(pfb_before[2])

C5_RelationPerNonNullFk ==
    \A i \in 1..Len(source) :
       LET row == RowOf(i)
           rel == source[i].relations
           fks == DescOf(i).foreign_keys
       IN \A j \in 1..Len(fks) :
             IF fks[j].fkname \in DOMAIN row /\ row[fks[j].fkname].k # "null"
             THEN Cardinality({r \in 1..Len(rel) :
                    rel[r] = [dst_id |-> row[fks[j].fkname],
                              dst_name |-> fks[j].table]}) = 1
             ELSE \A r \in 1..Len(rel) : rel[r].dst_name # fks[j].table

\* C6: the Row Entity built from a row has the value of the row's primary
\* key column as id and the table descriptor's table_name as name.
C6_IdentityPreserved ==
    \A i \in 1..Len(source) :
       /\ (DescOf(i).primary_key \in DOMAIN RowOf(i) =>
             source[i].id = RowOf(i)[DescOf(i).primary_key])
       /\ source[i].name = DescOf(i).table_name

\* C6 witness: an entity was built from a row that holds its primary key
C6_Witness ==
    \E i \in 1..Len(source) :
       /\ DescOf(i).primary_key \in DOMAIN RowOf(i)
       /\ source[i].id = Str("A")
       /\ source[i].name = rows_in[i][1]

\* C7: the type of a field is [null, T] with null first when the column is
\* nullable and T itself when it is not; T is the mapped type, the array
\* wrapper included.
C7_NullableUnion ==
    avro_types # << >> =>
       LET T == IF column.sqla_type = "ARRAY"
                THEN Array(SQLA_AVRO_TYPE_MAP_other(column.item_type))
                ELSE Name(SQLA_AVRO_TYPE_MAP_other(column.sqla_type))
       IN IF column.nullable
          THEN /\ avro_types[1].type.k = "union"
               /\ avro_types[1].type.branches = <<Name("null"), T>>
          ELSE avro_types[1].type = T

\* C7 witness: the types of a nullable array column were created
C7_Witness ==
    /\ avro_types # << >>
    /\ column.nullable
    /\ column.sqla_type = "ARRAY"
    /\ avro_types[1].type.branches[2].k = "array"

\* C9: every Row Entity written by build() is named after a table of the
\* model and tagged <namespace>.<that name>.
C9_WrittenNamesAreTables ==
    \A i \in 1..Len(written) :
       /\ written[i].name \in Keys(orm_models_dict)
       /\ source[i].object[1] =
            <<DEFAULT_AVRO_SCHEMA_NAMESPACE, written[i].name>>

\* C9 witness: a row of the live-query source restricted to one table was
\* written
C9_Witness ==
    /\ db_conn_url
    /\ table_name # "None"
    /\ Len(written) >= 1
    /\ written[1].name = table_name

\* C10: with rm_pfb set, from the first write on and after a successful run
\* the container holds exactly the records this run wrote.
C10_PreviousRemoved ==
    rm_pfb => ((written # << >> \/ pc = "Closed") => pfb_records = written)

\* C10 witness: a successful run with rm_pfb found a previous container and
\* wrote a record
C10_Witness ==
    /\ pc = "Closed"
    /\ rm_pfb
    /\ pfb_before[1]
    /\ pfb_before[2] # << >>
    /\ Len(written) >= 1

\* the models are usable: the import works and gives at least one class
UsableModels == ~import_raises /\ models_in # << >>

\* C11: a schema-only invocation with usable models ends with exit status 0,
\* never enters Writing, and neither removes, creates nor appends to the
\* output container.
C11_SchemaOnlyLeavesContainer ==
    (mode = "create_schema" /\ UsableModels) =>
        /\ pc \in {"Init", "SchemaDone"}
        /\ (pc = "SchemaDone" => exit_status = 0)
        /\ <<pfb_exists, pfb_records>> = pfb_before
        /\ written = << >>

\* a schema-only invocation has finished next to a container of an earlier run
C11_Witness ==
    /\ mode = "create_schema"
    /\ pc = "SchemaDone"
    /\ pfb_file_schema # << >>
    /\ pfb_before[1]

\* the key columns of the models (primary keys and foreign key columns) hold
\* strings, the type the Entity template gives to id and dst_id
StringKeys ==
    \A i \in 1..Len(models_in) :
       \A n \in ColNames(models_in[i]) :
          (n = models_in[i].primary_key \/ IsFkColumn(models_in[i], n)) =>
              KindOfSqlaType(ColumnNamed(models_in[i], n).sqla_type) = "str"

\* a parseable schema can be built from the models, and their keys fit it
UsableSchema ==
    /\ UsableModels
    /\ ParseSchemaOk(FileSchema(template, models_in, namespace))
    /\ StringKeys

(***************************************************************************)
(* build() over a file-based source, with models a schema can be built     *)
(* from.  build() is one sequential thread: whenever it has a next step it *)
(* takes it                                                                *)
(***************************************************************************)
InitFile == Init /\ mode = "build" /\ ~db_conn_url /\ UsableSchema

NextFile ==
    \/ CreatePfbSchema
    \/ RemovePrevious
    \/ ParseSchema
    \/ OpenAvroFile
    \/ GenStartNdjson
    \/ GenNextEntry
    \/ GenReadFirst
    \/ GenReadRow
    \/ GenEndOfFile
    \/ WriteEntity

SpecFile == InitFile /\ [][NextFile]_vars /\ WF_vars(NextFile)

\* every file read so far is well formed: its first record names a table of
\* the model and every row read conforms to the schema of its table
WellFormedSource ==
    /\ \A i \in 1..Len(firsts) :
          firsts[i].k = "str" /\ firsts[i].v \in Keys(models_in)
    /\ \A i \in 1..Len(rows_in) : ExactRow(RowOf(i), DescOf(i))

C12_Pre == mode = "build" /\ ~db_conn_url /\ UsableSchema /\ WellFormedSource

BadFirstRecord ==
    /\ firsts # << >>
    /\ LET obj == firsts[Len(firsts)]
       IN ~(obj.k = "str" /\ obj.v \in Keys(orm_models_dict))

\* C13: when the first record of a file is not a string, or is a string that
\* is not a key of the Relational Model, the run fails with an error that
\* lists the valid table names, and no row of that file becomes an entity.
C13_BadFirstRecordListsTables ==
    BadFirstRecord =>
        /\ pc = "Failed"
        /\ exit_status = 1
        /\ Len(log) >= 2
        /\ log[Len(log) - 1].level = "exception"
        /\ log[Len(log) - 1].tables = Keys(orm_models_dict)
        /\ g_pc = "file_first"
        /\ pending = << >>

\* the row the i-th entity was built from lacks the primary key column
LacksPrimaryKey(i) == DescOf(i).primary_key \notin DOMAIN RowOf(i)

\* C14: a row that lacks the primary key column of its table is fatal: its
\* entity is never accepted into the output container, the run cannot end
\* in Closed, and it ends Failed with a non-zero status.
C14_MissingPrimaryKeyFatal ==
    \A i \in 1..Len(rows_in) :
       LacksPrimaryKey(i) =>
           /\ Len(written) < i
           /\ i = Len(rows_in)
           /\ \/ pc = "Writing" /\ pending = <<source[i]>>
              \/ pc = "Failed" /\ exit_status = 1

\* the second row of a run lacks its primary key: the first row was written,
\* the second one failed the run
C14_Witness ==
    /\ Len(rows_in) = 2
    /\ LacksPrimaryKey(2)
    /\ ~LacksPrimaryKey(1)
    /\ pc = "Failed"
    /\ Len(written) = 1

\* live-query mode with a SQL file and no table name for its rows
SqlFileWithoutTable ==
    mode = "build" /\ db_conn_url /\ sql_file /\ table_name = "None"

\* C15: in live-query mode a SQL file given without a table name is a fatal
\* configuration error: the run writes no record and cannot end in Closed
\* with exit status 0, however many rows the query returns.
C15_InsufficientInputsFatal ==
    SqlFileWithoutTable =>
        /\ pc # "Closed"
        /\ exit_status # 0
        /\ written = << >>

\* the set of lines logged so far
Logged == {log[i] : i \in 1..Len(log)}

\* C16: every failure of create_pfb_schema() or build() is handled at the
\* pipeline boundary: the error is logged, then the explicit failure marker
\* of the operation that was invoked, and the process ends with exit status
\* 1; no success marker of that operation is logged.
C16_FailureHandledAtBoundary ==
    pc = "Failed" =>
        /\ exit_status = 1
        /\ \E i \in 1..Len(log) : log[i].level = "exception"
        /\ IF mode = "build"
           THEN log[Len(log)] = ExportFailed /\ ExportSucceeded \notin Logged
           ELSE log[Len(log)] = SchemaFailed /\ SchemaSucceeded \notin Logged

\* the fields of the schema PfbFileSchema.build returned that are named
\* `object`
ObjectFields(schema) ==
    {i \in 1..Len(schema.fields) : schema.fields[i].name = "object"}

\* the union PfbFileSchema.build has to install
ExpectedUnion ==
    [i \in 1..(Len(orm_models_dict) + 1) |->
        IF i = 1 THEN MetadataSchema ELSE TableRowSchema(orm_models_dict[i - 1])]

\* C17: PfbFileSchema.build never returns a schema in which the union was not
\* installed: when the template has no top-level field named `object` it
\* raises instead.
C17_MissingObjectFieldRaises ==
    (pc = "Schema" /\ pfb_file_schema # << >>) =>
        \E i \in ObjectFields(pfb_file_schema[1]) :
           pfb_file_schema[1].fields[i].type = ExpectedUnion

\* C18: the Metadata entity has id "Metadata", one node per table named after
\* it, in each node one property per column holding the column name, in
\* column order, and one link per foreign key whose name and dst are the
\* target table and whose multiplicity is MANY_TO_ONE; the node list is
\* wrapped as the pair (<namespace>.Metadata, payload).
C18_MetadataEntityShape ==
    (pc = "Schema" /\ metadata # << >>) =>
        LET m == metadata[1]
            nodes == m.object[2].nodes
        IN /\ m.id = Str("Metadata")
           /\ m.object[1] = <<namespace, "Metadata">>
           /\ Len(nodes) = Len(orm_models_dict)
           /\ \A i \in 1..Len(nodes) :
                 LET desc == orm_models_dict[i]
                 IN /\ nodes[i].name = desc.table_name
                    /\ Len(nodes[i].properties) = Len(desc.properties)
                    /\ \A j \in 1..Len(desc.properties) :
                          nodes[i].properties[j] =
                              [name |-> desc.properties[j].name]
                    /\ Len(nodes[i].links) = Len(desc.foreign_keys)
                    /\ \A k \in 1..Len(desc.foreign_keys) :
                          /\ nodes[i].links[k].dst = desc.foreign_keys[k].table
                          /\ nodes[i].links[k].name = nodes[i].links[k].dst
                          /\ nodes[i].links[k].multiplicity = "MANY_TO_ONE"

\* the Metadata entity of a table with two foreign keys to the same table has
\* two links of the same name
C18_Witness ==
    /\ pc = "Schema"
    /\ metadata # << >>
    /\ \E i \in 1..Len(metadata[1].object[2].nodes) :
          LET links == metadata[1].object[2].nodes[i].links
          IN Len(links) = 2 /\ links[1].name = links[2].name

\* C19: the type of the `object` field of the assembled schema is the union
\* of the Metadata schema followed by one record schema per table of the
\* model, in the model's order, none missing or repeated, and the namespace
\* of the schema is the namespace of the run.
C19_UnionCoversModel ==
    (pc = "Schema" /\ pfb_file_schema # << >>
        /\ ObjectFields(template) # {}) =>
        LET schema == pfb_file_schema[1]
            union == ObjectSchemas(schema)
        IN /\ Len(union) = Len(orm_models_dict) + 1
           /\ union[1] = MetadataSchema
           /\ \A i \in 1..Len(orm_models_dict) :
                 /\ union[i + 1].name = orm_models_dict[i].table_name
                 /\ union[i + 1] = TableRowSchema(orm_models_dict[i])
           /\ schema.namespace = namespace

\* a schema was assembled from a model of two tables under a namespace that
\* is not the default one
C19_Witness ==
    /\ pc = "Schema"
    /\ pfb_file_schema # << >>
    /\ ObjectFields(template) # {}
    /\ Len(orm_models_dict) = 2
    /\ namespace # DEFAULT_AVRO_SCHEMA_NAMESPACE

\* the primitive kind each known base type is mapped to
PrimitiveOf(t) ==
    CASE t \in {"Text", "String", "DateTime", "UUID"} -> "string"
      [] t = "Integer" -> "int"
      [] t = "Boolean" -> "boolean"
      [] t = "Float" -> "float"

KnownBaseTypes ==
    {"Text", "String", "Integer", "Boolean", "Float", "DateTime", "UUID"}

\* the type _create_avro_types gave the column, without the null branch
TypeGiven ==
    IF column.nullable
    THEN avro_types[1].type.branches[2]
    ELSE avro_types[1].type

\* C20 as stated: each known base type maps to its primitive kind, and
\* DateTime and UUID columns carry a logical-type annotation next to it.
C20_LogicalTypeOnDateTimeAndUuid ==
    (avro_types # << >> /\ column.sqla_type \in KnownBaseTypes) =>
        /\ TypeGiven = Name(PrimitiveOf(column.sqla_type))
        /\ column.sqla_type \in {"DateTime", "UUID"} =>
              avro_types[1].logicalType # "None"

\* C20: each known base type maps to its primitive kind; a UUID column
\* carries the logical type uuid next to its primitive type string, and no
\* other column, DateTime included, carries a logical type.
C20_LogicalTypeOnUuidOnly ==
    (avro_types # << >> /\ column.sqla_type \in KnownBaseTypes) =>
        /\ TypeGiven = Name(PrimitiveOf(column.sqla_type))
        /\ avro_types[1].logicalType =
              IF column.sqla_type = "UUID" THEN "uuid" ELSE "None"

\* the types of a nullable UUID column were created
C20_Witness ==
    /\ avro_types # << >>
    /\ column.sqla_type = "UUID"
    /\ column.nullable
    /\ avro_types[1].logicalType = "uuid"

\* C21: the object of every Row Entity is the pair (<namespace>.<table>, row)
\* whose payload has exactly the columns of the input row, each with its
\* original value, foreign key columns that gave a relation included.
C21_PayloadUnfiltered ==
    \A i \in 1..Len(source) :
       /\ source[i].object[1] = <<namespace, DescOf(i).table_name>>
       /\ DOMAIN source[i].object[2] = DOMAIN RowOf(i)
       /\ \A c \in DOMAIN RowOf(i) : source[i].object[2][c] = RowOf(i)[c]

\* an entity has a relation made from a foreign key column, and the column is
\* in its payload too
C21_Witness ==
    \E i \in 1..Len(source) :
       /\ source[i].relations # << >>
       /\ \E c \in DOMAIN source[i].object[2] :
             /\ IsFkColumn(DescOf(i), c)
             /\ source[i].object[2][c] = source[i].relations[1].dst_id

\* a step of the file-based source yields the entity of one more row: every
\* earlier entity is written already, and the new one is named after the
\* table the first record of the current file declared
RowStep ==
    Len(source') > Len(source) =>
        /\ Len(source') = Len(source) + 1
        /\ Len(written) = Len(source)
        /\ firsts # << >>
        /\ source'[Len(source')].name = firsts[Len(firsts)].v
        /\ firsts' = firsts

\* a step adds to the container: it appends the record of the one entity
\* that is yielded and not written yet
WriteStep ==
    pfb_records' # pfb_records =>
        /\ Len(source) = Len(written) + 1
        /\ written' = Append(written, ReadBack(source[Len(source)],
                                               pfb_file_schema[1]))
        /\ pfb_records' = Append(pfb_records, written'[Len(written')])

\* C22: with the file-based source every row read yields one entity named
\* after the table its file declared, the entity of a row is written before
\* the next row is read, and the records are appended in source order, none
\* dropped, repeated or reordered.
C22_FileRowsWrittenInOrder ==
    [][(pc = "Writing" /\ ~db_conn_url) => (RowStep /\ WriteStep)]_vars

\* a run over two files of different tables wrote one record for each and
\* closed
C22_Witness ==
    /\ ~db_conn_url
    /\ pc = "Closed"
    /\ Len(firsts) = 2
    /\ Len(written) = 2
    /\ written[1].name = firsts[1].v
    /\ written[2].name = firsts[2].v
    /\ firsts[1] # firsts[2]

\* the database generator has built its queries
QueriesBuilt == mode = "build" /\ db_conn_url /\ g_pc \in {"db", "done"}

\* the position of a table in the model's iteration order
ModelIndex(t) ==
    CHOOSE k \in 1..Len(orm_models_dict) : orm_models_dict[k].table_name = t

\* C23: with the live-query source and no restriction there is exactly one
\* query per table of the model, in the model's order, and all entities of a
\* table are emitted before any entity of the next one; with a table
\* restriction there is exactly one query and every entity has that table's
\* name.
C23_OneQueryPerTable ==
    QueriesBuilt =>
        IF table_name = "None" /\ ~sql_file
        THEN /\ Len(queries) = Len(orm_models_dict)
             /\ \A k \in 1..Len(queries) :
                   queries[k] = orm_models_dict[k].table_name
             /\ \A i \in 1..Len(source) : source[i].name = rows_in[i][1]
             /\ \A i, j \in 1..Len(rows_in) :
                   i < j => ModelIndex(rows_in[i][1]) <= ModelIndex(rows_in[j][1])
             /\ \A i \in 1..Len(rows_in) : ModelIndex(rows_in[i][1]) <= qi
        ELSE table_name # "None" =>
                /\ queries = <<table_name>>
                /\ \A i \in 1..Len(source) : source[i].name = table_name

\* an unrestricted database run has emitted one entity of the first table,
\* then one of the second, and closed
C23_Witness ==
    /\ QueriesBuilt
    /\ table_name = "None" /\ ~sql_file
    /\ pc = "Closed"
    /\ Len(queries) = 2
    /\ Len(written) = 2
    /\ written[1].name = queries[1]
    /\ written[2].name = queries[2]

\* PfbFileSchema was constructed, or raised
SchemaCalled == pc = "Schema" /\ (pfb_file_schema # << >> \/ log # << >>)

\* the type of a field without the null branch of a nullable column
SansNull(field, col) ==
    IF col.nullable THEN field.type.branches[2] ELSE field.type

Unmapped(t) == t \notin KnownBaseTypes \cup {"ARRAY"}

\* C24: a column whose base type, or array item type, is not in the type map
\* does not make schema construction raise: a diagnostic is logged, the type
\* is the absent marker, and the record shape of the table still has one
\* field for that column and for every other column.
C24_UnknownTypeIsSoft ==
    SchemaCalled =>
        /\ pfb_file_schema # << >>
        /\ \A l \in Logged : l.level = "error"
        /\ ObjectFields(template) # {} =>
              \A i \in 1..Len(orm_models_dict) :
                 LET desc == orm_models_dict[i]
                     shape == ObjectSchemas(pfb_file_schema[1])[i + 1]
                 IN /\ Len(shape.fields) = Len(desc.properties)
                    /\ \A j \in 1..Len(desc.properties) :
                          LET col == desc.properties[j]
                              given == SansNull(shape.fields[j], col)
                          IN /\ shape.fields[j].name = col.name
                             /\ Unmapped(col.sqla_type) =>
                                   /\ given = Name("None")
                                   /\ Diagnostic(col.name) \in Logged
                             /\ (col.sqla_type = "ARRAY"
                                   /\ Unmapped(col.item_type)) =>
                                   /\ given = Array("None")
                                   /\ Diagnostic(col.name) \in Logged

\* the schema of a table with an array column of an unmapped item type was
\* built, and the diagnostic for that column logged
C24_Witness ==
    /\ SchemaCalled
    /\ orm_models_dict = ArrayModel
    /\ ObjectFields(template) # {}
    /\ Diagnostic("scores") \in Logged
    /\ Len(ObjectSchemas(pfb_file_schema[1])[2].fields) = 3

\* the record shape built for the i-th table of the model
ShapeOf(i) == ObjectSchemas(pfb_file_schema[1])[i + 1]

\* C25: every record shape has exactly one field per column of its table
\* descriptor, in column order, with the column's name, default and doc;
\* primary key and foreign key columns are typed like any other column.
C25_OneFieldPerColumn ==
    (pc = "Schema" /\ pfb_file_schema # << >> /\ ObjectFields(template) # {})
    => \A i \in 1..Len(orm_models_dict) :
          LET desc == orm_models_dict[i]
          IN /\ ShapeOf(i).name = desc.table_name
             /\ Len(ShapeOf(i).fields) = Len(desc.properties)
             /\ \A j \in 1..Len(desc.properties) :
                   LET col == desc.properties[j]
                       field == ShapeOf(i).fields[j]
                   IN /\ field.name = col.name
                      /\ field.default = col.default
                      /\ field.doc = col.doc
                      /\ col.sqla_type \in KnownBaseTypes =>
                            SansNull(field, col) =
                                Name(PrimitiveOf(col.sqla_type))

\* a shape was built for a table with a primary key and a foreign key column:
\* both have their field
C25_Witness ==
    /\ pc = "Schema"
    /\ pfb_file_schema # << >>
    /\ ObjectFields(template) # {}
    /\ orm_models_dict = KfModel
    /\ ShapeOf(1).fields[1].name = KfModel[1].primary_key
    /\ IsFkColumn(KfModel[1], ShapeOf(1).fields[2].name)

\* C26: every row dict yield_row_dicts has yielded has exactly the columns of
\* its result row; each value is null or an int, float, bool, str or bytes; a
\* null or primitive value of the result row is yielded unchanged, a
\* datetime as its ISO-8601 string and any other value as its string form;
\* and normalising the yielded row dict again gives the same row dict
C26_RowDictsArePrimitive ==
    pc = "Db" =>
      \A i \in 1..Len(row_dicts) :
         /\ DOMAIN row_dicts[i] = DOMAIN result_rows[i]
         /\ \A col \in DOMAIN row_dicts[i] :
               LET val == result_rows[i][col]
                   out == row_dicts[i][col]
               IN /\ out.k \in {"null", "int", "float", "bool", "str", "bytes"}
                  /\ val.k \in {"null", "int", "float", "bool", "str", "bytes"}
                        => out = val
                  /\ val = DateTime1 => out = Str("2020-01-02T03:04:05")
                  /\ val = Decimal1 => out = Str("1.5")
         /\ yield_row_dict(row_dicts[i]) = row_dicts[i]

\* two rows were yielded: one held a datetime, the other a Decimal
C26_Witness ==
    /\ pc = "Db"
    /\ Len(row_dicts) = 2
    /\ result_rows[1].participant_id = DateTime1
    /\ result_rows[2].participant_id = Decimal1
    /\ result_rows[2].kf_id = Null

\* table_rows_to_ndjson returned: it wrote every row dict and logged so
NdjsonWritten == pc = "Db" /\ ndjson # << >> /\ Info("Wrote file") \in Logged

C27_ModelIsReadOnly ==
    pc = "Schema" => orm_models_dict = models_in

\* the schema, the metadata and two row entities were built from a model
\* with a foreign key
C27_Witness ==
    /\ pc = "Schema"
    /\ models_in = KfModel
    /\ pfb_file_schema # << >>
    /\ metadata # << >>
    /\ Len(source) = 2
    /\ source[1].name = "biospecimen"
    /\ source[1].relations # << >>

\* C29: when build() runs with rm_pfb=False and finds a container, the
\* container is never removed and at every moment holds the records it held
\* before, in their order, followed by the records this run has appended
C29_AppendsAfterExisting ==
    (~rm_pfb /\ pfb_before[1]) =>
        /\ pfb_exists
        /\ pfb_records = pfb_before[2] \o written

\* a successful run without rm_pfb appended two records to a container that
\* held a record of an earlier run
C29_Witness ==
    /\ pc = "Closed"
    /\ exit_status = 0
    /\ ~rm_pfb
    /\ pfb_before[1]
    /\ pfb_before[2] # << >>
    /\ Len(written) = 2
    /\ Len(pfb_records) = 3

\* C28: every call of to_dict on the same imported model classes returns,
\* for every table, the foreign_keys list the first call returned
C28_ToDictRepeatable ==
    pc = "Sqla" =>
      \A n \in 1..Len(to_dicts) :
         \A i \in 1..Len(to_dicts[n]) :
            to_dicts[n][i].foreign_keys = to_dicts[1][i].foreign_keys

====
